---- MODULE Spec2Model ----
(***************************************************************************)
(* Model of the task service of src/main.py: one table "tasks" reached     *)
(* through per-request ORM sessions, and the six HTTP handlers.            *)
(*                                                                         *)
(* A request is served by a worker thread.  Each database round trip of a  *)
(* handler is one step, so that requests served by different workers       *)
(* interleave at the database calls.  Spec has one worker (requests are    *)
(* served one after the other), ConcSpec has two.                          *)
(***************************************************************************)
EXTENDS Integers, Sequences, FiniteSets, TLC

VARIABLES
    store,      \* the rows of table "tasks": a set of [id, title, status]
    seq,        \* last value handed out by the id sequence of tasks.id
    req,        \* per worker: the request it serves and where it stands
    workers,    \* the workers that serve requests
    written,    \* history: id -> the <<title, status>> of the most recent
                \* create_task / update_task on that id that answered 200,
                \* or <<>> once a delete_task of the id answered 200
    budget      \* the number of requests the run still accepts

vars == <<store, seq, req, workers, written, budget>>

----------------------------------------------------------------------------
(* Bounds of the model.                                                    *)

\* the id sequence is capped: at most MaxId ids are ever handed out
MaxId == 2
\* skip and limit are drawn from 0..MaxParam (or left out)
MaxParam == 1
\* a run with one worker accepts MaxRequests requests
MaxRequests == 3
\* a run with two workers accepts MaxConcRequests requests
MaxConcRequests == 2

Workers == {"w1", "w2"}
Titles == {"a", "b"}

----------------------------------------------------------------------------
(* Values of the program.                                                  *)

TaskStatus == {"assigned", "inprogress", "completed"}

\* a status field left out of the request body
Omitted == "omitted"
\* what a request body may carry as status
StatusInputs == TaskStatus \cup {Omitted, "bogus"}

DefaultSkip == 0
DefaultLimit == 100

\* "no row": what .first() returns when nothing matches (None)
NoRow == [id |-> 0, title |-> "", status |-> ""]

TaskModel(id, title, status) == [id |-> id, title |-> title, status |-> status]

\* the request body after validation: status defaults to assigned
TaskCreateSchema(title, status) ==
    [title |-> title,
     status |-> IF status = Omitted THEN "assigned" ELSE status]

\* body validation of POST /add_task: status is optional
ValidCreate(status) == status \in TaskStatus \cup {Omitted}
\* update_task taking the body unvalidated
ValidUpdate_any(status) == TRUE

\* body validation of PUT /task/{id}: the schema is the same one
ValidUpdate(status) == status \in TaskStatus \cup {Omitted}

\* a query parameter is <<>> when left out, <<n>> when given
QueryParam(q, default) == IF q = <<>> THEN default ELSE q[1]
ParamInputs == {<<>>} \cup {<<n>> : n \in 0..MaxParam}

----------------------------------------------------------------------------
(* Responses.                                                              *)

NoResp == [code |-> 0, detail |-> <<>>, body |-> NoRow, list |-> <<>>]

Ok(row) == [code |-> 200, detail |-> <<>>, body |-> row, list |-> <<>>]
OkList(rows) == [code |-> 200, detail |-> <<>>, body |-> NoRow, list |-> rows]
NoContent == [code |-> 204, detail |-> <<>>, body |-> NoRow, list |-> <<>>]
NotFound == [code |-> 404, detail |-> <<"Task not found">>, body |-> NoRow,
             list |-> <<>>]
ValidationError == [code |-> 422, detail |-> <<"validation error">>,
                    body |-> NoRow, list |-> <<>>]
\* HTTPException(500, detail = prefix + str(e))
ServerError(prefix, e) == [code |-> 500, detail |-> <<prefix, e>>,
                           body |-> NoRow, list |-> <<>>]
\* an exception no handler catches: the server's own 500
InternalServerError == [code |-> 500, detail |-> <<"Internal Server Error">>,
                        body |-> NoRow, list |-> <<>>]

CreatePrefix == "An error occurred while creating the task: "
UpdatePrefix == "An error occurred while updating the task: "

----------------------------------------------------------------------------
(* The storage layer as the handlers use it.                               *)

\* the query without its filter: the first row of the table, whatever id
QueryFirst_nofilter(st, task_id) ==
    IF st = {} THEN NoRow
    ELSE CHOOSE r \in st : \A other \in st : r.id <= other.id

\* db.query(TaskModel).filter(TaskModel.id == task_id).first()
QueryFirst(st, task_id) ==
    IF \E r \in st : r.id = task_id
    THEN CHOOSE r \in st : r.id = task_id
    ELSE NoRow

\* the orders in which a query without ORDER BY may return the rows
ScanOrders(st) ==
    {f \in [1..Cardinality(st) -> st] :
        \A i, j \in 1..Cardinality(st) : i # j => f[i] # f[j]}

Min(a, b) == IF a < b THEN a ELSE b

\* .offset(skip).limit(limit) applied to the rows in scan order
OffsetLimit(rows, skip, limit) ==
    SubSeq(rows, skip + 1, Min(Len(rows), skip + limit))

----------------------------------------------------------------------------
(* Requests.                                                               *)

Idle == [op |-> "none", pc |-> "idle", task_id |-> 0, title |-> "",
         status |-> "", skip |-> <<>>, limit |-> <<>>,
         sess |-> "none", closes |-> 0, tx |-> "none", db_task |-> NoRow,
         exc |-> "", resp |-> NoResp, wrote |-> FALSE]

\* what get_db hands the handler: a fresh session, nothing loaded yet
\* (exc: the exception raised in the handler; wrote: history, whether a
\* step of the request changed the table)
Request(op, pc, task_id, title, status, skip, limit) ==
    [op |-> op, pc |-> pc, task_id |-> task_id, title |-> title,
     status |-> status, skip |-> skip, limit |-> limit,
     sess |-> "open", closes |-> 0, tx |-> "none", db_task |-> NoRow,
     exc |-> "", resp |-> NoResp, wrote |-> FALSE]

\* the ids a path parameter is drawn from: MaxId + 1 is never created
TaskIds == 1..(MaxId + 1)

Idling(w) == req[w].pc \in {"idle", "done"}

\* a worker takes a new request when it serves none; the pool hands a
\* request to w1 when w1 is free
Free(w) ==
    /\ w \in workers
    /\ Idling(w)
    /\ w = "w1" \/ ~Idling("w1")
    /\ budget > 0

\* the handler is over with response resp: what is left is get_db's finally
Respond(r, resp) == [r EXCEPT !.resp = resp, !.pc = "exit"]

\* the session's transaction begins with its first statement
Begin(r) == [r EXCEPT !.tx = "active"]

\* db.rollback(): the session's transaction is rolled back.  Flush and
\* COMMIT are one step of the model, so a transaction that did not commit
\* has written no row of the table.
Rollback(r) == [r EXCEPT !.tx = "rolled_back"]

\* exception e is raised in the handler
Raise(r, e) == [r EXCEPT !.exc = e]

\* the except block of create_task: rollback, then HTTPException(500)
CreateExcept(r, e) ==
    Respond(Rollback(Raise(r, e)), ServerError(CreatePrefix, e))

\* the except block of update_task: rollback, then HTTPException(500)
UpdateExcept(r, e) ==
    Respond(Rollback(Raise(r, e)), ServerError(UpdatePrefix, e))

\* raise HTTPException(404, "Task not found") outside any try block
RaiseNotFound(r) == Respond(Raise(r, "HTTPException"), NotFound)

\* exception e leaves a handler that has no try block
Uncaught(r, e) == Respond(Raise(r, e), InternalServerError)

Init ==
    /\ store = {}
    /\ seq = 0
    /\ req = [w \in Workers |-> Idle]
    /\ workers = {"w1"}
    /\ written = [i \in {} |-> <<>>]
    /\ budget = MaxRequests

\* Two worker threads.  The table outlives the process: the service starts
\* on what earlier runs left, here nothing or the one task they created.
ConcInit ==
    /\ \/ store = {} /\ seq = 0 /\ written = [i \in {} |-> <<>>]
       \/ \E title \in Titles, status \in TaskStatus :
            /\ store = {TaskModel(1, title, status)}
            /\ seq = 1
            /\ written = [i \in {1} |-> <<title, status>>]
    /\ req = [w \in Workers |-> Idle]
    /\ workers = {"w1", "w2"}
    /\ budget = MaxConcRequests

----------------------------------------------------------------------------
(* POST /add_task                                                          *)

\* an id source that does not advance once a task exists
NextId_same(s) == IF s = 0 THEN 1 ELSE s

\* the id the sequence hands to the next INSERT
NextId(s) == s + 1

\* The request arrives (get_db opens a session, the body is validated), then
\* TaskModel(...), db.add, db.commit: INSERT (the sequence assigns the id)
\* and COMMIT.  The sequence is not transactional: an id drawn by an INSERT
\* whose COMMIT fails is lost.
create_task(w) ==
    /\ Free(w)
    /\ seq < MaxId
    /\ budget' = budget - 1
    /\ \E title \in Titles, status \in StatusInputs :
         LET r == Request("create", "create_refresh", 0, title, status,
                          <<>>, <<>>)
             task == TaskCreateSchema(title, status)
             row == TaskModel(NextId(seq), task.title, task.status)
         IN IF ~ValidCreate(status)
            THEN /\ req' = [req EXCEPT ![w] = Respond(r, ValidationError)]
                 /\ UNCHANGED <<store, seq>>
            ELSE \E outcome \in {"ok", "add_fails", "commit_fails"} :
                   CASE outcome = "ok" ->
                          /\ store' = store \cup {row}
                          /\ seq' = row.id
                          /\ req' = [req EXCEPT ![w] =
                               [r EXCEPT !.db_task = row,
                                         !.tx = "committed",
                                         !.wrote = TRUE]]
                     [] outcome = "add_fails" ->
                          /\ req' = [req EXCEPT ![w] =
                               CreateExcept(Begin(r), "OperationalError")]
                          /\ UNCHANGED <<store, seq>>
                     [] outcome = "commit_fails" ->
                          /\ req' = [req EXCEPT ![w] =
                               CreateExcept(Begin(r), "OperationalError")]
                          /\ seq' = row.id
                          /\ store' = store
    /\ UNCHANGED <<workers, written>>

\* History: the create or update r on id answered 200.  "Most recent" is
\* the order of the requests, which a run with one worker defines.
Wrote(id, r) ==
    IF Cardinality(workers) > 1 THEN written
    ELSE [i \in DOMAIN written \cup {id} |->
            IF i = id
            THEN <<TaskCreateSchema(r.title, r.status).title,
                   TaskCreateSchema(r.title, r.status).status>>
            ELSE written[i]]

\* history: a delete_task of id answered 200
Unwrote(id) ==
    IF Cardinality(workers) > 1 THEN written
    ELSE [i \in DOMAIN written \cup {id} |->
            IF i = id THEN <<>> ELSE written[i]]

\* db.refresh(db_task) and return: SELECT the row again
create_task_refresh(w) ==
    /\ w \in workers
    /\ req[w].pc = "create_refresh"
    /\ LET row == QueryFirst(store, req[w].db_task.id)
           r == Begin(req[w])
       IN \E fails \in BOOLEAN :
            IF fails
            THEN /\ req' = [req EXCEPT ![w] =
                                CreateExcept(r, "OperationalError")]
                 /\ written' = written
            ELSE IF row = NoRow
            THEN /\ req' = [req EXCEPT ![w] =
                                CreateExcept(r, "InvalidRequestError")]
                 /\ written' = written
            ELSE /\ req' = [req EXCEPT ![w] =
                                Respond([r EXCEPT !.db_task = row], Ok(row))]
                 /\ written' = Wrote(row.id, req[w])
    /\ UNCHANGED <<store, seq, workers, budget>>

----------------------------------------------------------------------------
(* GET /get_tasks                                                          *)

\* db.query(TaskModel).offset(skip).limit(limit).all()
read_tasks(w) ==
    /\ Free(w)
    /\ budget' = budget - 1
    /\ \E skip \in ParamInputs, limit \in ParamInputs :
         LET r == Begin(Request("list", "exit", 0, "", "", skip, limit))
         IN \E fails \in BOOLEAN :
              IF fails
              THEN req' = [req EXCEPT ![w] =
                        Uncaught(r, "OperationalError")]
              ELSE \E rows \in ScanOrders(store) :
                     req' = [req EXCEPT ![w] =
                        Respond(r, OkList(OffsetLimit(rows,
                            QueryParam(skip, DefaultSkip),
                            QueryParam(limit, DefaultLimit))))]
    /\ UNCHANGED <<store, seq, workers, written>>

----------------------------------------------------------------------------
(* GET /tasks/{task_id}                                                    *)

read_task(w) ==
    /\ Free(w)
    /\ budget' = budget - 1
    /\ \E task_id \in TaskIds :
         LET r == Begin(Request("read", "exit", task_id, "", "", <<>>, <<>>))
             task == QueryFirst(store, task_id)
         IN \E fails \in BOOLEAN :
              IF fails
              THEN req' = [req EXCEPT ![w] =
                        Uncaught(r, "OperationalError")]
              ELSE IF task = NoRow
              THEN req' = [req EXCEPT ![w] = RaiseNotFound(r)]
              ELSE req' = [req EXCEPT ![w] =
                        Respond([r EXCEPT !.db_task = task], Ok(task))]
    /\ UNCHANGED <<store, seq, workers, written>>

----------------------------------------------------------------------------
(* PUT /task/{task_id}                                                     *)

\* what update_task answers when the row is absent: the HTTPException(404)
\* is raised inside the try block, and "except Exception" catches it
UpdateNotFound(r) == UpdateExcept(r, "HTTPException")

\* update_task without its not-found test
UpdateIsNone_never(db_task) == FALSE

\* "if db_task is None" of update_task
UpdateIsNone(db_task) == db_task = NoRow

\* the request arrives, then the query of update_task and its "is None" test
update_task(w) ==
    /\ Free(w)
    /\ budget' = budget - 1
    /\ \E task_id \in TaskIds, title \in Titles, status \in StatusInputs :
         LET r == Request("update", "update_commit", task_id, title, status,
                          <<>>, <<>>)
             db_task == QueryFirst(store, task_id)
         IN IF ~ValidUpdate(status)
            THEN req' = [req EXCEPT ![w] = Respond(r, ValidationError)]
            ELSE \E fails \in BOOLEAN :
                   IF fails
                   THEN req' = [req EXCEPT ![w] =
                            UpdateExcept(Begin(r), "OperationalError")]
                   ELSE IF UpdateIsNone(db_task)
                   THEN req' = [req EXCEPT ![w] = UpdateNotFound(Begin(r))]
                   ELSE req' = [req EXCEPT ![w] =
                            [Begin(r) EXCEPT !.db_task = db_task]]
    /\ UNCHANGED <<store, seq, workers, written>>

\* the row after the UPDATE the flush emits: the unit of work sets the
\* columns whose attribute differs from the value the session loaded
Updated(current, loaded, task) ==
    [id |-> current.id,
     title |-> IF task.title # loaded.title THEN task.title
               ELSE current.title,
     status |-> IF task.status # loaded.status THEN task.status
                ELSE current.status]

\* the two assignments and db.commit(): UPDATE ... WHERE id = and COMMIT
update_task_commit(w) ==
    /\ w \in workers
    /\ req[w].pc = "update_commit"
    /\ LET task == TaskCreateSchema(req[w].title, req[w].status)
           loaded == req[w].db_task
           current == QueryFirst(store, loaded.id)
           dirty == task.title # loaded.title \/ task.status # loaded.status
           r == req[w]
       IN \E fails \in BOOLEAN :
            IF fails
            THEN /\ req' = [req EXCEPT ![w] =
                                UpdateExcept(r, "OperationalError")]
                 /\ store' = store
            ELSE IF dirty /\ current = NoRow
            THEN \* the UPDATE matched no row
                 /\ req' = [req EXCEPT ![w] =
                                UpdateExcept(r, "StaleDataError")]
                 /\ store' = store
            ELSE /\ store' = IF dirty
                             THEN (store \ {current})
                                    \cup {Updated(current, loaded, task)}
                             ELSE store
                 /\ req' = [req EXCEPT ![w] =
                        [r EXCEPT !.tx = "committed",
                                  !.wrote = store' # store,
                                  !.pc = "update_refresh"]]
    /\ UNCHANGED <<seq, workers, written, budget>>

\* db.refresh(db_task) and return
update_task_refresh(w) ==
    /\ w \in workers
    /\ req[w].pc = "update_refresh"
    /\ LET row == QueryFirst(store, req[w].db_task.id)
           r == Begin(req[w])
       IN \E fails \in BOOLEAN :
            IF fails
            THEN /\ req' = [req EXCEPT ![w] =
                                UpdateExcept(r, "OperationalError")]
                 /\ written' = written
            ELSE IF row = NoRow
            THEN /\ req' = [req EXCEPT ![w] =
                                UpdateExcept(r, "InvalidRequestError")]
                 /\ written' = written
            ELSE /\ req' = [req EXCEPT ![w] =
                                Respond([r EXCEPT !.db_task = row], Ok(row))]
                 /\ written' = Wrote(row.id, req[w])
    /\ UNCHANGED <<store, seq, workers, budget>>

----------------------------------------------------------------------------
(* DELETE /task/{task_id}                                                  *)

\* the request arrives, then the query of delete_task and its "is None" test
delete_task(w) ==
    /\ Free(w)
    /\ budget' = budget - 1
    /\ \E task_id \in TaskIds :
         LET r == Begin(Request("delete", "delete_commit", task_id, "", "",
                                <<>>, <<>>))
             task == QueryFirst(store, task_id)
         IN \E fails \in BOOLEAN :
              IF fails
              THEN req' = [req EXCEPT ![w] =
                        Uncaught(r, "OperationalError")]
              ELSE IF task = NoRow
              THEN req' = [req EXCEPT ![w] = RaiseNotFound(r)]
              ELSE req' = [req EXCEPT ![w] = [r EXCEPT !.db_task = task]]
    /\ UNCHANGED <<store, seq, workers, written>>

\* a DELETE without its WHERE clause
Deleted_all(st, task) == {}

\* the table after DELETE FROM tasks WHERE id = task.id
Deleted(st, task) == {row \in st : row.id # task.id}

\* db.delete(task), db.commit(), return task: the object keeps the values
\* it was loaded with.  No except block: a failure is not caught.
delete_task_commit(w) ==
    /\ w \in workers
    /\ req[w].pc = "delete_commit"
    /\ LET task == req[w].db_task
           r == req[w]
       IN \E fails \in BOOLEAN :
            IF fails
            THEN /\ req' = [req EXCEPT ![w] =
                            Uncaught(r, "OperationalError")]
                 /\ UNCHANGED <<store, written>>
            ELSE /\ store' = Deleted(store, task)
                 /\ req' = [req EXCEPT ![w] =
                            Respond([r EXCEPT !.tx = "committed",
                                              !.wrote = store' # store],
                                    Ok(task))]
                 /\ written' = Unwrote(task.id)
    /\ UNCHANGED <<seq, workers, budget>>

----------------------------------------------------------------------------
(* OPTIONS /task/{task_id} and the end of a request                        *)

\* no Depends(get_db): no session
options_task(w) ==
    /\ Free(w)
    /\ budget' = budget - 1
    /\ req' = [req EXCEPT ![w] =
            [Idle EXCEPT !.op = "options", !.pc = "done",
                         !.resp = NoContent]]
    /\ UNCHANGED <<store, seq, workers, written>>

\* get_db without its try/finally: db.close() is skipped when the handler
\* raised
Close_unless_raised(r) ==
    [Idle EXCEPT !.op = r.op, !.pc = "done",
                 !.sess = IF r.exc = "" THEN "closed" ELSE "open",
                 !.closes = IF r.exc = "" THEN r.closes + 1 ELSE r.closes,
                 !.resp = [NoResp EXCEPT !.code = r.resp.code,
                                         !.detail = r.resp.detail]]

\* The request after db.close().  The response is sent: of the request the
\* model keeps which handler it was and the status it answered.
Close(r) ==
    [Idle EXCEPT !.op = r.op, !.pc = "done", !.sess = "closed",
                 !.closes = r.closes + 1,
                 !.resp = [NoResp EXCEPT !.code = r.resp.code,
                                         !.detail = r.resp.detail]]

\* the finally block of get_db, run when the handler returned or raised
get_db_close(w) ==
    /\ w \in workers
    /\ req[w].pc = "exit"
    /\ req[w].sess = "open"
    /\ req' = [req EXCEPT ![w] = Close(req[w])]
    /\ UNCHANGED <<store, seq, workers, written, budget>>

----------------------------------------------------------------------------

Step(w) ==
    \/ create_task(w)
    \/ create_task_refresh(w)
    \/ read_tasks(w)
    \/ read_task(w)
    \/ update_task(w)
    \/ update_task_commit(w)
    \/ update_task_refresh(w)
    \/ delete_task(w)
    \/ delete_task_commit(w)
    \/ options_task(w)
    \/ get_db_close(w)

Next == \E w \in Workers : Step(w)

Spec == Init /\ [][Next]_vars

\* a worker thread inside a request keeps running: the handler's next
\* database call, then get_db's finally
Continue(w) ==
    \/ create_task_refresh(w)
    \/ update_task_commit(w)
    \/ update_task_refresh(w)
    \/ delete_task_commit(w)
    \/ get_db_close(w)

FairSpec == Spec /\ \A w \in Workers : WF_vars(Continue(w))

\* the requests that write: reads change nothing, so they take no part in
\* a race between writers
WriteStep(w) ==
    \/ create_task(w)
    \/ create_task_refresh(w)
    \/ update_task(w)
    \/ update_task_commit(w)
    \/ update_task_refresh(w)
    \/ delete_task(w)
    \/ delete_task_commit(w)
    \/ get_db_close(w)

ConcNext == \E w \in Workers : WriteStep(w)

ConcSpec == ConcInit /\ [][ConcNext]_vars

----------------------------------------------------------------------------
(* Properties.  A handler's response is fixed once the request stands at   *)
(* "exit"; with one worker (Spec) nothing else runs until then, so the     *)
(* table at "exit" is the table the request leaves.                        *)

\* the handler op of worker w has finished and its response is fixed
Exited(w, op) == req[w].op = op /\ req[w].pc = "exit"

\* the table st holds a row with this id
HasRow(st, id) == \E row \in st : row.id = id

\* worker w takes a new request of handler op in this step
Takes(w, op) == Idling(w) /\ req'[w] # req[w] /\ req'[w].op = op

\* no database call of the request failed
NoStorageFailure(r) == r.exc # "OperationalError"

\* C1: update_task on a task_id that has no row answers 404 "Task not
\* found" (not the generic 500) and leaves the table unchanged.  (With one
\* worker the row is absent when update_task ends iff it was absent when
\* the request arrived: update_task inserts and deletes nothing.)
C1_UpdateAbsentIsNotFound ==
    \A w \in Workers :
        (/\ Exited(w, "update")
         /\ req[w].resp # ValidationError
         /\ NoStorageFailure(req[w])
         /\ ~HasRow(store, req[w].task_id))
        => (req[w].resp = NotFound /\ ~req[w].wrote)

\* a read_task or delete_task that finds no row answers 404 at once and
\* changes nothing; a row that is gone stays gone
C2_Step ==
    /\ \A w \in Workers :
        (/\ Takes(w, "read") \/ Takes(w, "delete")
         /\ NoStorageFailure(req'[w])
         /\ ~HasRow(store, req'[w].task_id))
        => (/\ req'[w].pc = "exit"
            /\ req'[w].resp = NotFound
            /\ store' = store)
    /\ \A w \in Workers :
        (/\ Exited(w, "read") \/ Exited(w, "delete")
         /\ req[w].resp = NotFound)
        => store' = store
    /\ \A id \in 1..seq : ~HasRow(store, id) => ~HasRow(store', id)

\* C2: read_task and delete_task on a task_id that has no row (never
\* created, or deleted) answer 404 and leave the table unchanged, the
\* storage working; and an id that was handed out and has no row never
\* gets a row again, so a get after a delete keeps answering 404.
C2_AbsentIsNotFound == [][C2_Step]_vars

\* a get of a task that a delete_task removed answers 404
C2_GetAfterDelete ==
    \E w \in Workers :
        /\ Exited(w, "read")
        /\ req[w].task_id \in DOMAIN written
        /\ written[req[w].task_id] = <<>>
        /\ req[w].resp = NotFound

\* what create_task and update_task persist for a validated body
Persisted(r) ==
    [title |-> r.title,
     status |-> IF r.status = Omitted THEN "assigned" ELSE r.status]

\* stored ids are pairwise distinct and were handed out by the sequence; a
\* create_task that answered 200 persisted and returned what it was given
C3_State ==
    /\ \A r1, r2 \in store : r1.id = r2.id => r1 = r2
    /\ \A row \in store : row.id \in 1..seq
    /\ \A w \in Workers :
        (Exited(w, "create") /\ req[w].resp.code = 200)
        => (/\ req[w].resp.body \in store
            /\ req[w].resp.body.title = Persisted(req[w]).title
            /\ req[w].resp.body.status = Persisted(req[w]).status
            /\ req[w].wrote)

\* the INSERT of create_task adds one row, under an id never handed out;
\* no other step of create_task changes the table; the sequence never
\* goes back
C3_Step ==
    /\ seq' >= seq
    /\ \A w \in Workers :
        /\ Takes(w, "create") =>
            IF req'[w].wrote
            THEN \E row \in store' :
                    /\ store' = store \cup {row}
                    /\ row.id \notin 1..seq
                    /\ ~HasRow(store, row.id)
            ELSE store' = store
        /\ (req[w].op = "create" /\ req[w].pc \in {"create_refresh", "exit"})
            => store' = store

\* C3: a create_task that answers 200 has added exactly one task, with an
\* id no earlier task had (ids handed out are 1..seq, also those of tasks
\* since deleted); stored ids are pairwise distinct; the status persisted
\* and returned is assigned when the request leaves it out, else the one
\* it gives.
C3_FreshId == [] C3_State /\ [][C3_Step]_vars

\* a create_task without status answers 200 after task 1 was deleted: the
\* new task is task 2, not task 1 again
C3_CreateAfterDelete ==
    \E w \in Workers :
        /\ Exited(w, "create")
        /\ req[w].resp.code = 200
        /\ req[w].status = Omitted
        /\ req[w].resp.body.id = 2
        /\ 1 \in DOMAIN written
        /\ written[1] = <<>>

\* C4: read_task of an existing task answers the title and status of the
\* most recent create_task or update_task of that id that answered 200
\* (for a task that such a request wrote), under the id asked for; an
\* update_task that answers 200 has replaced title and status together and
\* kept the id.
C4_ReadsLastWrite ==
    \A w \in Workers :
        /\ (/\ Exited(w, "read")
            /\ req[w].resp.code = 200
            /\ req[w].task_id \in DOMAIN written)
            => (/\ req[w].resp.body.id = req[w].task_id
                /\ written[req[w].task_id]
                     = <<req[w].resp.body.title, req[w].resp.body.status>>)
        /\ (Exited(w, "update") /\ req[w].resp.code = 200)
            => (/\ req[w].resp.body.id = req[w].task_id
                /\ req[w].resp.body.title = Persisted(req[w]).title
                /\ req[w].resp.body.status = Persisted(req[w]).status
                /\ req[w].resp.body \in store)

\* the commit of delete_task, and the steps of delete_task around it
C5_Step ==
    \A w \in Workers :
        /\ (req[w].pc = "delete_commit" /\ req'[w].resp.code = 200)
            => (/\ req'[w].resp.body \in store
                /\ req'[w].resp.body.id = req[w].task_id
                /\ store' = store \ {req'[w].resp.body})
        /\ Takes(w, "delete") => (store' = store /\ req'[w].resp.code # 200)
        /\ Exited(w, "delete") => store' = store

\* C5: a delete_task that answers 200 returns the row as stored just
\* before the DELETE, removes that row and no other, and changes nothing
\* else of the table.
C5_DeleteReturnsRow == [][C5_Step]_vars

\* a delete_task answered 200 and another task is still stored
C5_DeletedOneOfTwo ==
    \E w \in Workers :
        /\ Exited(w, "delete")
        /\ req[w].resp.code = 200
        /\ ~HasRow(store, req[w].resp.body.id)
        /\ store # {}

\* C6: every stored status is one of assigned, inprogress, completed; a
\* create or update whose status is another value is answered as a
\* validation error, has issued no statement and has left the table alone.
C6_StatusInEnum ==
    /\ \A row \in store : row.status \in TaskStatus
    /\ \A w \in Workers :
        (/\ Exited(w, "create") \/ Exited(w, "update")
         /\ req[w].status \notin TaskStatus \cup {Omitted})
        => (/\ req[w].resp = ValidationError
            /\ req[w].tx = "none"
            /\ ~req[w].wrote)

\* an update with a status outside the enumeration was rejected, on a table
\* that holds a task
C6_RejectedUpdate ==
    \E w \in Workers :
        /\ Exited(w, "update")
        /\ req[w].status = "bogus"
        /\ HasRow(store, req[w].task_id)
        /\ req[w].resp = ValidationError

\* C7: when a database call of create_task or update_task fails, the
\* handler has rolled back, answers the generic 500 with the message of the
\* failure, and the table is as it was before the request.
C7_FailureLeavesTable ==
    \A w \in Workers :
        (/\ Exited(w, "create") \/ Exited(w, "update")
         /\ req[w].exc = "OperationalError")
        => (/\ req[w].tx = "rolled_back"
            /\ req[w].resp.code = 500
            /\ req[w].resp.detail =
                 <<IF req[w].op = "create" THEN CreatePrefix
                   ELSE UpdatePrefix, "OperationalError">>
            /\ ~req[w].wrote)

\* the rows of the table in ascending id order
ById(st) ==
    CHOOSE f \in [1..Cardinality(st) -> st] :
        \A i, j \in 1..Cardinality(st) : i < j => f[i].id < f[j].id

\* C9: read_tasks answers the stored tasks in ascending id order, without
\* the first skip of them and at most limit of the rest (skip 0 and limit
\* 100 when left out), and does not change the table.
C9_ListIsSortedSlice ==
    \A w \in Workers :
        (Exited(w, "list") /\ req[w].resp.code = 200)
        => LET skip == IF req[w].skip = <<>> THEN 0 ELSE req[w].skip[1]
               limit == IF req[w].limit = <<>> THEN 100 ELSE req[w].limit[1]
               all == ById(store)
           IN /\ req[w].resp.list =
                    [i \in 1..Min(limit, Len(all) - Min(skip, Len(all))) |->
                        all[skip + i]]
              /\ ~req[w].wrote

\* a session is open while its request runs, closed once when it is over
C8_State ==
    \A w \in Workers :
        /\ req[w].closes <= 1
        /\ req[w].pc \notin {"idle", "done"}
            => (req[w].sess = "open" /\ req[w].closes = 0)
        /\ (req[w].pc = "done" /\ req[w].op # "options")
            => (req[w].sess = "closed" /\ req[w].closes = 1)
        /\ req[w].op \in {"none", "options"} => req[w].sess = "none"

\* C8: a request that got a session from get_db closes it exactly once,
\* whatever the way its handler ended; no session is open once the request
\* is over, and every open session is closed eventually.
C8_SessionClosed ==
    /\ [] C8_State
    /\ \A w \in Workers : (req[w].sess = "open") ~> (req[w].sess = "closed")

\* a delete_task whose storage exception nobody caught is over, its session
\* closed
C8_ClosedAfterUncaught ==
    \E w \in Workers :
        /\ req[w].op = "delete"
        /\ req[w].pc = "done"
        /\ req[w].resp.code = 500
        /\ req[w].sess = "closed"
        /\ req[w].closes = 1

\* C10: update_task stands at its commit only with a row it loaded and that
\* passed its not-found test, and from there its commit, like the commit of
\* a delete_task of the same id, goes ahead whatever the other request has
\* done since: the service has no lock, version check or conditional write
\* that keeps the row in place between the load and the commit.
C10_UpdateUnguarded ==
    \A u \in Workers :
        /\ req[u].pc = "update_commit"
            => (/\ req[u].db_task # NoRow
                /\ req[u].db_task.id = req[u].task_id
                /\ ENABLED update_task_commit(u))
        /\ req[u].pc = "delete_commit"
            => (/\ req[u].db_task.id = req[u].task_id
                /\ ENABLED delete_task_commit(u))

\* the interleaving: update_task has loaded the row and stands at its
\* commit, a delete_task of the same id has committed, the row is gone
C10_RowGoneAtCommit ==
    \E u, d \in Workers :
        /\ req[u].op = "update"
        /\ req[u].pc = "update_commit"
        /\ req[d].op = "delete"
        /\ req[d].pc = "exit"
        /\ req[d].resp.code = 200
        /\ req[d].task_id = req[u].task_id
        /\ ~HasRow(store, req[u].task_id)

====
